---- MODULE Spec2Model ----
(***************************************************************************)
(* ToggleTrack LINE bot (src/main.py, src/v3.py): the locked record store, *)
(* the command dispatcher and the reminder scheduler.                      *)
(*                                                                         *)
(* Text is modelled at character level: a string is a sequence of          *)
(* one-character strings, so that lower(), strip(), split(), int() and the *)
(* slice [:50] are computed as Python computes them.                       *)
(***************************************************************************)
EXTENDS Integers, Sequences, FiniteSets, TLC

VARIABLES
    variant,    \* which source file runs: "main" (src/main.py) or "v3" (src/v3.py)
    file,       \* toggl_users.json: what is on disk
    last,       \* the outcome of the latest process_command call
    schedPc,    \* check_long_entries: "load", "sweep", "sleep", "backoff" or "dead"
    sweepUsers, \* check_long_entries: the users mapping loaded for the sweep
    visited,    \* check_long_entries: what the sweep did for each user, in order
    pc,         \* store workers: position of each worker inside load / save
    op,         \* store workers: the operation each worker is running
    loc,        \* store workers: the users mapping local to the running operation
    obs,        \* store workers: what the worker's latest load saw on disk
    registered, \* store workers: users whose save_user_credentials has returned
    usage,      \* usage_log.json: the count stored for each user
    events,     \* the message events handle_message has handled, per user
    tasks,      \* the process_command tasks created and not yet finished
    replies,    \* the texts of the reply_message calls made, per reply token
    BACKGROUND_TASK_STARTED,    \* the module's global of that name
    loops,      \* the check_long_entries tasks created so far
    starts,     \* how many times the lifespan start has run
    slept,      \* check_long_entries: seconds of the sleep just taken, 0 if none
    holder,     \* event loop: the task whose code the loop's thread is running
    inOp,       \* event loop: the network or file operation each task is inside
    step,       \* event loop: how many operations of its code each task has done
    lockPath,   \* lock file: the inode the name "<filename>.lock" leads to, 0 if none
    fds,        \* lock file: the inode each accessor's open lock file refers to
    flocks      \* the flock each accessor holds: "none", "sh" or "ex"

\* State of the webhook path and of the application's lifespan
webVars == <<usage, events, tasks, replies>>
lifeVars == <<BACKGROUND_TASK_STARTED, loops, starts>>

\* State of the asyncio event loop and of the file locks
loopVars == <<holder, inOp, step>>
lockVars == <<lockPath, fds, flocks>>

vars == <<variant, file, last, schedPc, sweepUsers, visited, pc, op, loc, obs, registered,
          webVars, lifeVars, slept, loopVars, lockVars>>

-----------------------------------------------------------------------------
(* Program constants *)

MAX_REPORT_DAYS == 30
NAME_SLICE == 50
LONG_THRESHOLD_MAIN == 10
LONG_THRESHOLD_V3 == 10800
REMIND_INTERVAL_MAIN == 30
MS_PER_HOUR == 3600000
MS_PER_MINUTE == 60000
PROJECT_SLICE == 20
DESCRIPTION_SLICE == 30
REPORT_DETAIL_LINES == 20
SUMMARY_CAP == 2000
DETAIL_CAP == 3000
REMIND_INTERVAL_V3 == 3600
BACKOFF_SLEEP == 60

(* Bounds of the model *)

NowUTC == 200000          \* datetime.now(UTC), in seconds
NumWorkers == 2           \* server processes sharing the store file
MaxEvents == 2            \* message events delivered to the webhook
MaxStarts == 2            \* executions of the lifespan start
MaxEntries == 3           \* entries of an enumerated report

JST_OFFSET == 32400
NowJST == NowUTC + JST_OFFSET
Today == NowJST \div 86400

-----------------------------------------------------------------------------
(* Text *)

Lower(c) ==
    CASE c = "A" -> "a"
      [] c = "B" -> "b"
      [] c = "H" -> "h"
      [] c = "K" -> "k"
      [] c = "P" -> "p"
      [] c = "R" -> "r"
      [] OTHER -> c

\* str.lower()
LowerStr(s) == [i \in 1..Len(s) |-> Lower(s[i])]

IsSpace(c) == c \in {" ", "\t", "\n"}

RECURSIVE LStrip(_)
LStrip(s) == IF s # <<>> /\ IsSpace(Head(s)) THEN LStrip(Tail(s)) ELSE s

RECURSIVE RStrip(_)
RStrip(s) ==
    IF s # <<>> /\ IsSpace(s[Len(s)]) THEN RStrip(SubSeq(s, 1, Len(s) - 1)) ELSE s

\* str.strip()
Strip(s) == RStrip(LStrip(s))

\* str.split(): the maximal runs of non-whitespace characters
RECURSIVE SplitFrom(_, _, _)
SplitFrom(s, cur, acc) ==
    IF s = <<>>
    THEN IF cur = <<>> THEN acc ELSE Append(acc, cur)
    ELSE IF IsSpace(Head(s))
         THEN SplitFrom(Tail(s), <<>>, IF cur = <<>> THEN acc ELSE Append(acc, cur))
         ELSE SplitFrom(Tail(s), Append(cur, Head(s)), acc)

Split(s) == SplitFrom(s, <<>>, <<>>)

\* s[:n]
Take(s, n) == SubSeq(s, 1, IF Len(s) < n THEN Len(s) ELSE n)

\* s[n:] of a list
Drop(s, n) == SubSeq(s, n + 1, Len(s))

Digits == {"0", "1", "2", "3", "4", "5", "6", "7", "8", "9"}

DigitVal(c) ==
    CASE c = "0" -> 0 [] c = "1" -> 1 [] c = "2" -> 2 [] c = "3" -> 3 [] c = "4" -> 4
      [] c = "5" -> 5 [] c = "6" -> 6 [] c = "7" -> 7 [] c = "8" -> 8 [] c = "9" -> 9
      [] OTHER -> 0

AllDigits(s) == s # <<>> /\ \A i \in 1..Len(s) : s[i] \in Digits

\* int(s) does not raise ValueError: an optional sign, then decimal digits
IsInt(s) ==
    IF s # <<>> /\ Head(s) \in {"+", "-"} THEN AllDigits(Tail(s)) ELSE AllDigits(s)

RECURSIVE NatVal(_, _)
NatVal(s, acc) == IF s = <<>> THEN acc ELSE NatVal(Tail(s), 10 * acc + DigitVal(Head(s)))

\* int(s)
IntVal(s) ==
    IF Head(s) = "-" THEN 0 - NatVal(Tail(s), 0)
    ELSE IF Head(s) = "+" THEN NatVal(Tail(s), 0)
    ELSE NatVal(s, 0)

Min(a, b) == IF a < b THEN a ELSE b

\* " ".join(words)
RECURSIVE Join(_)
Join(ws) ==
    IF ws = <<>> THEN <<>>
    ELSE IF Len(ws) = 1 THEN ws[1]
    ELSE ws[1] \o <<" ">> \o Join(Tail(ws))

W_register == <<"r", "e", "g", "i", "s", "t", "e", "r">>
W_start == <<"s", "t", "a", "r", "t">>
W_stop == <<"s", "t", "o", "p">>
W_status == <<"s", "t", "a", "t", "u", "s">>
W_report == <<"r", "e", "p", "o", "r", "t">>
W_help == <<"h", "e", "l", "p">>

-----------------------------------------------------------------------------
(* Locked record store: a JSON object, kept in insertion order *)

Has(m, u) == \E i \in 1..Len(m) : m[i].id = u

\* dict.get(u): [found |-> FALSE] stands for None
Get(m, u) ==
    IF Has(m, u)
    THEN [found |-> TRUE, rec |-> m[CHOOSE i \in 1..Len(m) : m[i].id = u].rec]
    ELSE [found |-> FALSE]

\* m[u] = r: an existing key keeps its place, a new key goes last
Put(m, u, r) ==
    IF Has(m, u)
    THEN [i \in 1..Len(m) |-> IF m[i].id = u THEN [id |-> u, rec |-> r] ELSE m[i]]
    ELSE Append(m, [id |-> u, rec |-> r])

Keys(m) == {m[i].id : i \in 1..Len(m)}

\* Bytes json.dump(data, f, indent=2) writes for one record besides its three
\* values: the key line (a 33-character user id), the field names, the quotes,
\* the indentation and the line ends
JSON_ENTRY_BYTES == 107

RECURSIVE EntriesLen(_)
EntriesLen(m) ==
    IF m = <<>> THEN 0
    ELSE JSON_ENTRY_BYTES + Len(Head(m).rec.user_name) + Len(Head(m).rec.api_key)
            + Len(Head(m).rec.workspace_id) + EntriesLen(Tail(m))

\* len(json.dumps(m, indent=2, ensure_ascii=False))
JsonLen(m) == IF m = <<>> THEN 2 ELSE 2 + EntriesLen(m) + 2 * Len(m)

\* What is on disk: no file, an empty file, one JSON document, or bytes that
\* json.loads rejects; size is the length of the content
MissingFile == [kind |-> "missing", data |-> <<>>, size |-> 0]
EmptyFile == [kind |-> "empty", data |-> <<>>, size |-> 0]
JsonFile(m) == [kind |-> "json", data |-> m, size |-> JsonLen(m)]

\* The store file when open() fails with an OSError that is no
\* FileNotFoundError (EACCES, EMFILE, EIO): neither safe_load_json nor
\* safe_save_json catches it
OSErrorFile == [kind |-> "oserror", data |-> <<>>, size |-> 0]

\* Bytes that are no UTF-8 text (a multi-byte character cut in two by an
\* interrupted or overlaid write): f.read() raises UnicodeDecodeError
BadBytesFile == [kind |-> "badbytes", data |-> <<>>, size |-> 1]

\* A JSON document that is no object, such as []: json.loads returns it
NotMappingFile == [kind |-> "notmapping", data |-> <<>>, size |-> 2]

\* Text that json.loads rejects with JSONDecodeError
CorruptFile == [kind |-> "corrupt", data |-> <<>>, size |-> 1]

\* safe_load_json(filename) raises: its except clause names FileNotFoundError
\* and json.JSONDecodeError only
LoadRaises(f) == f.kind \in {"oserror", "badbytes"}

\* safe_load_json(filename) returns a value that is no dict
LoadsNoMapping(f) == f.kind = "notmapping"

\* get_toggl_credentials and save_user_credentials raise: the load raises, or
\* .get(user_id) and users[user_id] = data are applied to a value that is no dict
StoreCallRaises(f) == LoadRaises(f) \/ LoadsNoMapping(f)

\* async_load_json(filename) raises: the same except clause around the same
\* read and json.loads
AsyncLoadRaises(f) == f.kind \in {"oserror", "badbytes"}

\* json.loads(content) if content else {}, with FileNotFoundError and
\* JSONDecodeError turned into {}
DecodeContent(f) == IF f.kind = "json" THEN f.data ELSE <<>>

\* The buffered text of json.dump reaching a file that was opened (and
\* truncated) before: it is written from offset 0 over what is there now, and
\* a longer old content keeps its tail
WriteAtZero(f, data) ==
    IF JsonLen(data) >= f.size THEN JsonFile(data)
    ELSE [kind |-> "corrupt", data |-> <<>>, size |-> f.size]

\* One uninterrupted safe_load_json call that does not raise (see LoadRaises)
safe_load_json(f) == DecodeContent(f)

\* One uninterrupted safe_save_json call: open(filename, "w+") truncates, the
\* dump is flushed when the file is closed
safe_save_json(f, data) == WriteAtZero(EmptyFile, data)

\* A lookup that falls back to the first record of the store
get_toggl_credentials_FirstRecord(f, u) ==
    IF Has(safe_load_json(f), u) \/ safe_load_json(f) = <<>>
    THEN Get(safe_load_json(f), u)
    ELSE [found |-> TRUE, rec |-> safe_load_json(f)[1].rec]

get_toggl_credentials(f, u) == Get(safe_load_json(f), u)

save_user_credentials(f, u, data) == safe_save_json(f, Put(safe_load_json(f), u, data))

-----------------------------------------------------------------------------
(* Remote time-tracking client.  A reply of the provider is               *)
(*   [st |-> "ok", body |-> v]   status 200 with JSON body v              *)
(*   [st |-> "http_error"]       another status                           *)
(*   [st |-> "client_error"]     aiohttp.ClientError                      *)
(*   [st |-> "raise"]            an exception that is no ClientError:     *)
(*                               asyncio.TimeoutError of the session's    *)
(*                               total timeout, or JSONDecodeError of     *)
(*                               resp.json() on an undecodable 200 body   *)

Null == [t |-> "null"]
JList(items) == [t |-> "list", items |-> items]
Ok(v) == [st |-> "ok", body |-> v]
HttpError == [st |-> "http_error"]
ClientError == [st |-> "client_error"]
Raise == [st |-> "raise"]

\* bool(v) of a decoded JSON value
Truthy(v) == v.t = "entry" \/ (v.t = "list" /\ v.items # <<>>) \/ v.t = "dict"

Req(method, path, creds) ==
    [method |-> method, path |-> path, key |-> creds.api_key, wid |-> creds.workspace_id]

\* TogglClient._request: [raised, val]
request(reply) ==
    IF reply.st = "ok" THEN [raised |-> FALSE, val |-> reply.body]
    ELSE IF reply.st \in {"http_error", "client_error"} THEN [raised |-> FALSE, val |-> Null]
    ELSE [raised |-> TRUE, val |-> Null]

\* Every client method returns [raised, val, reqs]
get_current_entry(creds, net) ==
    [raised |-> request(net.current).raised,
     val |-> request(net.current).val,
     reqs |-> <<Req("GET", "current", creds)>>]

get_projects(creds, net) ==
    LET r == request(net.projects)
    IN [raised |-> r.raised,
        val |-> IF Truthy(r.val) THEN r.val ELSE JList(<<>>),
        reqs |-> <<Req("GET", "projects", creds)>>]

\* next((p for p in projects if p.get("name", "").lower() == project_name.lower()), None)
FindProject(projects, project_name) ==
    LET hits == {i \in 1..Len(projects) :
                    LowerStr(projects[i].name) = LowerStr(project_name)}
    IN IF hits = {} THEN [found |-> FALSE]
       ELSE [found |-> TRUE, project |-> projects[CHOOSE i \in hits : \A j \in hits : i <= j]]

start_time_entry(creds, project_name, description, net) ==
    LET ps == get_projects(creds, net)
        project == FindProject(ps.val.items, project_name)
        r == request(net.create)
    IN IF ps.raised THEN [raised |-> TRUE, val |-> Null, reqs |-> ps.reqs]
       ELSE IF ~project.found THEN [raised |-> FALSE, val |-> Null, reqs |-> ps.reqs]
       ELSE [raised |-> r.raised, val |-> r.val,
             reqs |-> Append(ps.reqs, Req("POST", "time_entries", creds))]

\* stop_current_entry without "if not current: return None"
stop_current_entry_Unguarded(creds, net) ==
    LET current == get_current_entry(creds, net)
        r == request(net.patch)
    IN IF current.raised THEN [raised |-> TRUE, val |-> Null, reqs |-> current.reqs]
       ELSE [raised |-> r.raised, val |-> r.val,
             reqs |-> Append(current.reqs, Req("PATCH", "stop", creds))]

stop_current_entry(creds, net) ==
    LET current == get_current_entry(creds, net)
        r == request(net.patch)
    IN IF current.raised THEN [raised |-> TRUE, val |-> Null, reqs |-> current.reqs]
       ELSE IF ~Truthy(current.val) THEN [raised |-> FALSE, val |-> Null, reqs |-> current.reqs]
       ELSE [raised |-> r.raised, val |-> r.val,
             reqs |-> Append(current.reqs, Req("PATCH", "stop", creds))]

\* get_report(start, end): since and until are calendar dates (day numbers)
\* (src/v3.py joins BASE_URL and REPORTS_URL, which is no report endpoint: the
\* provider answers with an error status)
get_report(creds, since, until, net) ==
    LET r == request(IF variant = "v3" THEN HttpError ELSE net.report)
    IN [raised |-> r.raised,
        val |-> IF Truthy(r.val) THEN r.val.data ELSE <<>>,
        reqs |-> <<[method |-> "GET", path |-> "report", key |-> creds.api_key,
                    wid |-> creds.workspace_id, since |-> since, until |-> until]>>]

-----------------------------------------------------------------------------
(* Command handlers: each returns [response, requests, file] *)

Result(response, requests, f) == [response |-> response, requests |-> requests, file |-> f]

Text(tag) == [tag |-> tag]

\* An exception leaves the handler: there is no response
Raised(f) == Result(Text("RAISED"), <<>>, f)

\* datetime.fromisoformat(entry["start"]) succeeds
StartParses(entry) == entry.start.kind = "ts"

\* The instant of an aware datetime, in seconds since the epoch (UTC)
Instant(ts) == ts.wall - ts.off

\* entry.get("duration", 0) < 0
IsRunning(entry) == entry.hasDuration /\ entry.duration < 0

\* handle_register saving the record before it validates the workspace id
handle_register_SaveFirst(user_id, args, f) ==
    LET saved == save_user_credentials(f, user_id,
                    [user_name |-> Take(args[1], NAME_SLICE),
                     api_key |-> args[2],
                     workspace_id |-> args[3]])
    IN IF Len(args) < 3 THEN Result(Text("REGISTER_USAGE"), <<>>, f)
       ELSE IF ~IsInt(args[3]) THEN Result(Text("WID_NOT_NUMERIC"), <<>>, saved)
       ELSE Result(Text("REGISTERED"), <<>>, saved)

handle_register(user_id, args, f) ==
    IF Len(args) < 3 THEN Result(Text("REGISTER_USAGE"), <<>>, f)
    ELSE IF ~IsInt(args[3]) THEN Result(Text("WID_NOT_NUMERIC"), <<>>, f)
    ELSE IF StoreCallRaises(f) THEN Raised(f)
    ELSE Result(Text("REGISTERED"), <<>>,
                save_user_credentials(f, user_id,
                    [user_name |-> Take(args[1], NAME_SLICE),
                     api_key |-> args[2],
                     workspace_id |-> args[3]]))

handle_start(user_id, args, f, net) ==
    LET creds == get_toggl_credentials(f, user_id)
        r == start_time_entry(creds.rec, args[1], Join(Drop(args, 1)), net)
    IN IF StoreCallRaises(f) THEN Raised(f)
       ELSE IF ~creds.found THEN Result(Text("REGISTER_FIRST"), <<>>, f)
       ELSE IF args = <<>> THEN Result(Text("NEED_PROJECT"), <<>>, f)
       ELSE IF r.raised THEN Result(Text("START_ERROR"), r.reqs, f)
       ELSE Result([tag |-> "STARTED", project |-> args[1]], r.reqs, f)

handle_stop(user_id, f, net) ==
    LET creds == get_toggl_credentials(f, user_id)
        stopped == stop_current_entry(creds.rec, net)
        dur == IF stopped.val.hasDuration THEN stopped.val.duration ELSE 0
    IN IF StoreCallRaises(f) THEN Raised(f)
       ELSE IF ~creds.found THEN Result(Text("REGISTER_FIRST"), <<>>, f)
       ELSE IF stopped.raised THEN Result(Text("STOP_ERROR"), stopped.reqs, f)
       ELSE IF Truthy(stopped.val)
            THEN Result([tag |-> "STOPPED", hours |-> dur \div 3600,
                         mins |-> (dur % 3600) \div 60], stopped.reqs, f)
       ELSE Result(Text("NO_RUNNING_ENTRY"), stopped.reqs, f)

\* timedelta.seconds: the seconds of the difference without its whole days
TimedeltaSeconds(delta) == delta % 86400

handle_status(user_id, f, net) ==
    LET creds == get_toggl_credentials(f, user_id)
        entry == get_current_entry(creds.rec, net)
        elapsed == NowUTC - Instant(entry.val.start)
        secs == TimedeltaSeconds(elapsed)
    IN IF StoreCallRaises(f) THEN Raised(f)
       ELSE IF ~creds.found THEN Result(Text("REGISTER_FIRST"), <<>>, f)
       ELSE IF entry.raised THEN Result(Text("STATUS_ERROR"), entry.reqs, f)
       ELSE IF Truthy(entry.val) /\ IsRunning(entry.val)
            THEN IF ~StartParses(entry.val) THEN Result(Text("STATUS_ERROR"), entry.reqs, f)
                 ELSE Result([tag |-> "RUNNING", hours |-> secs \div 3600,
                              mins |-> (secs % 3600) \div 60], entry.reqs, f)
       ELSE Result(Text("NOT_RUNNING"), entry.reqs, f)

\* handle_report's days without the min(..., MAX_REPORT_DAYS)
ReportDays_Unclamped(args) == IF args = <<>> THEN 1 ELSE IntVal(args[1])

\* days = 1; if args: days = min(int(args[0]), MAX_REPORT_DAYS)
ReportDays(args) == IF args = <<>> THEN 1 ELSE Min(IntVal(args[1]), MAX_REPORT_DAYS)

\* A report entry of the provider: start, dur, project and description are
\*   [kind |-> "missing"]            the key is absent (start: or null, or "")
\*   [kind |-> "bad"]                start: fromisoformat raises; dur: int() raises
\*   [kind |-> "null"]               project, description: null, which has no [:n]
\*   [kind |-> "ts", wall, off]      start: an ISO text with a UTC offset
\*   [kind |-> "int", val |-> n]     dur, in milliseconds
\*   [kind |-> "str", val |-> s]     project, description
ReportEntry(start, dur, project, description) ==
    [start |-> start, dur |-> dur, project |-> project, description |-> description]

\* entry.get('project', <default>), entry.get('description', <default>): the
\* default is a text of three characters ('not set')
UNSET == <<"n", "/", "a">>

FieldText(v) == IF v.kind = "missing" THEN UNSET ELSE v.val

\* datetime.fromisoformat(start_str).astimezone(JST): the wall clock in JST
WallJST(ts) == Instant(ts) + JST_OFFSET

\* start.date(), as a day number
DateJST(ts) == WallJST(ts) \div 86400

RECURSIVE NumDigits(_)
NumDigits(n) == IF n < 10 THEN 1 ELSE 1 + NumDigits(n \div 10)

\* len(f"{n:02d}")
Width02(n) ==
    IF n < 0 THEN 1 + NumDigits(0 - n)
    ELSE IF NumDigits(n) < 2 THEN 2 ELSE NumDigits(n)

\* f"{ms//3600000:02d}:{(ms%3600000)//60000:02d}"
HoursOf(ms) == ms \div MS_PER_HOUR
MinutesOf(ms) == (ms % MS_PER_HOUR) \div MS_PER_MINUTE

\* One line of the detail section: '%m/%d %H:%M' of the start in JST (the day
\* is named within its year), project[:20], description[:30], HH:MM of dur
DetailLine(entry) ==
    [date |-> DateJST(entry.start),
     hh |-> (WallJST(entry.start) % 86400) \div 3600,
     mm |-> (WallJST(entry.start) % 3600) \div 60,
     project |-> Take(FieldText(entry.project), PROJECT_SLICE),
     description |-> Take(FieldText(entry.description), DESCRIPTION_SLICE),
     hours |-> HoursOf(entry.dur.val),
     mins |-> MinutesOf(entry.dur.val)]

\* len() of a detail line: 11 characters of time, three " | " separators, ":"
\* and the two digits of the minutes
DetailWidth(line) ==
    11 + 3 + Len(line.project) + 3 + Len(line.description) + 3 + Width02(line.hours) + 1 + 2

\* One line of the summary section: "<calendar sign> <date>: HH:MM"
SummaryLine(item) ==
    [date |-> item.id, hours |-> HoursOf(item.rec), mins |-> MinutesOf(item.rec)]

\* len() of a summary line: the sign and a blank, the ten characters of the
\* ISO date, ": ", the hours, ":" and the two digits of the minutes
SummaryWidth(line) == 2 + 10 + 2 + Width02(line.hours) + 1 + 2

\* int(entry.get('dur', 0)) does not raise
DurParses(entry) == entry.dur.kind \in {"missing", "int"}

DurOf(entry) == IF entry.dur.kind = "int" THEN entry.dur.val ELSE 0

\* The body of the for loop of format_report for one entry, in the order of
\* its statements: an entry without start is passed over; a start or a dur
\* that does not parse raises before anything is recorded; the total of the
\* date is updated; then the line is built, which raises for a project or a
\* description that is null, and appended
report_entry(acc, entry) ==
    IF entry.start.kind = "missing" THEN acc
    ELSE IF entry.start.kind = "bad" THEN acc
    ELSE IF ~DurParses(entry) THEN acc
    ELSE LET date == DateJST(entry.start)
             old == Get(acc.daily_total, date)
             total == (IF old.found THEN old.rec ELSE 0) + DurOf(entry)
             counted == Put(acc.daily_total, date, total)
         IN IF entry.project.kind = "null" \/ entry.description.kind = "null"
            THEN [acc EXCEPT !.daily_total = counted]
            ELSE [daily_total |-> counted,
                  report |-> Append(acc.report,
                                DetailLine([entry EXCEPT !.dur = [kind |-> "int",
                                                                  val |-> DurOf(entry)]]))]

\* daily_total and report after the first n entries of the for loop
RECURSIVE report_loop(_, _)
report_loop(entries, n) ==
    IF n = 0 THEN [daily_total |-> <<>>, report |-> <<>>]
    ELSE CHOOSE acc \in {report_entry(before, entries[n]) :
                            before \in {report_loop(entries, n - 1)}} : TRUE

\* sorted(daily_total.items()): by the ISO date
RECURSIVE SortedItems(_)
SortedItems(m) ==
    IF m = <<>> THEN <<>>
    ELSE LET i == CHOOSE i \in 1..Len(m) : \A j \in 1..Len(m) : m[i].id <= m[j].id
         IN <<m[i]>> \o SortedItems(SubSeq(m, 1, i - 1) \o SubSeq(m, i + 1, Len(m)))

\* s[-n:] of a list
LastN(s, n) == SubSeq(s, IF Len(s) > n THEN Len(s) - n + 1 ELSE 1, Len(s))

\* How many whole lines of "\n".join(lines) lie within its first room characters
RECURSIVE KeptLines(_, _)
KeptLines(widths, room) ==
    IF widths = <<>> \/ Head(widths) > room THEN 0
    ELSE 1 + KeptLines(Tail(widths), room - Head(widths) - 1)

\* "\n".join(lines)[:cap]: the whole lines that are left, and whether
\* characters were cut off
Capped(lines, widths, cap) ==
    [lines |-> SubSeq(lines, 1, KeptLines(widths, cap)),
     cut |-> KeptLines(widths, cap) < Len(lines)]

format_report(entries) ==
    LET acc == report_loop(entries, Len(entries))
        sorted == SortedItems(acc.daily_total)
        summary == [i \in 1..Len(sorted) |-> SummaryLine(sorted[i])]
        detail == LastN(acc.report, REPORT_DETAIL_LINES)
        top == Capped(summary, [i \in 1..Len(summary) |-> SummaryWidth(summary[i])],
                      SUMMARY_CAP)
        bottom == Capped(detail, [i \in 1..Len(detail) |-> DetailWidth(detail[i])],
                         DETAIL_CAP)
    IN [tag |-> "REPORT",
        summary |-> top.lines, summaryCut |-> top.cut,
        details |-> bottom.lines, detailsCut |-> bottom.cut]

handle_report(user_id, args, f, net) ==
    LET creds == get_toggl_credentials(f, user_id)
        days == ReportDays(args)
        r == get_report(creds.rec, Today - days, Today, net)
    IN IF StoreCallRaises(f) THEN Raised(f)
       ELSE IF ~creds.found THEN Result(Text("REGISTER_FIRST"), <<>>, f)
       ELSE IF args # <<>> /\ ~IsInt(args[1]) THEN Result(Text("DAYS_NOT_NUMERIC"), <<>>, f)
       ELSE IF r.raised THEN Result(Text("REPORT_ERROR"), r.reqs, f)
       ELSE Result(format_report(r.val), r.reqs, f)

help_message == Text("HELP")

\* The response process_command starts from
DefaultResponse == IF variant = "main" THEN Text("EMPTY") ELSE Text("UNRECOGNIZED")

Dispatch(user_id, commands, f, net) ==
    LET cmd == commands[1]
        args == Drop(commands, 1)
    IN IF cmd = W_register THEN handle_register(user_id, args, f)
       ELSE IF cmd = W_start THEN handle_start(user_id, args, f, net)
       ELSE IF cmd = W_stop THEN handle_stop(user_id, f, net)
       ELSE IF cmd = W_status THEN handle_status(user_id, f, net)
       ELSE IF cmd = W_report THEN handle_report(user_id, args, f, net)
       ELSE IF cmd = W_help THEN Result(help_message, <<>>, f)
       ELSE Result(DefaultResponse, <<>>, f)

\* process_command without its try / except
Catch_Propagate(r) == r

\* try: ... except Exception as e: response = the generic error text
Catch(r) ==
    IF r.response.tag = "RAISED" THEN Result(Text("GENERIC_ERROR"), r.requests, r.file) ELSE r

\* message.lower().split()
Tokenize(message) == Split(LowerStr(message))

\* process_command(user_id, message, reply_token): the reply sent, the provider
\* requests issued and the store file afterwards
process_command(user_id, message, f, net) ==
    LET commands == Tokenize(message)
    IN IF commands = <<>>
       THEN Result(IF variant = "main" THEN DefaultResponse ELSE help_message, <<>>, f)
       ELSE Catch(Dispatch(user_id, commands, f, net))

-----------------------------------------------------------------------------
(* Inputs: users, message texts and provider replies *)

Users == {"U1", "U2"}

LongName == [i \in 1..(NAME_SLICE + 1) |-> IF i <= NAME_SLICE THEN "n" ELSE "x"]

RegisterMessages ==
    {Join(<<W_register, <<"B", "o">>, <<"K", "1">>, <<"1", "2">>>>),
     Join(<<W_register, LongName, <<"k", "2">>, <<"3", "4">>>>),
     Join(<<W_register, <<"B", "o">>, <<"K", "1">>, <<"x", "1">>>>),
     Join(<<W_register, <<"B", "o">>, <<"k", "1">>>>),
     <<" ", "R">> \o Tail(W_register)
         \o <<" ", " ", "b", "o", "\t", "k", "1", " ", "1", "2", " ">>}

StartMessages ==
    {W_start,
     Join(<<W_start, <<"p", "a">>>>),
     Join(<<W_start, <<"P", "A">>, <<"a">>, <<"b">>>>),
     Join(<<W_start, <<"z", "z">>>>)}

ReportArgs ==
    {<<"0">>, <<"7">>, <<"3", "0">>, <<"3", "1">>, <<"9", "9", "9", "9">>,
     <<"-", "1">>, <<"x", "1">>}

ReportMessages == {W_report} \cup {Join(<<W_report, a>>) : a \in ReportArgs}

OtherMessages ==
    {W_stop, W_status, W_help,
     <<"H">> \o Tail(W_help),
     <<" ">> \o W_help \o <<" ", "m", "e">>,
     <<"h", "e", "l", "l", "o">>,
     Join(<<<<"b", "o">>, W_stop>>),
     <<>>,
     <<" ", " ">>}

Messages == RegisterMessages \cup StartMessages \cup ReportMessages \cup OtherMessages

Timestamp(instant) == [kind |-> "ts", wall |-> instant, off |-> 0]

Entry(duration, start) ==
    [t |-> "entry", id |-> 7, hasDuration |-> TRUE, duration |-> duration, start |-> start]

\* A running entry started e seconds ago; the provider reports start in UTC
RunningEntry(e) == Entry(-1, Timestamp(NowUTC - e))

ElapsedCases ==
    {LONG_THRESHOLD_MAIN - 1, LONG_THRESHOLD_MAIN, LONG_THRESHOLD_MAIN + 1,
     3725,
     LONG_THRESHOLD_V3 - 1, LONG_THRESHOLD_V3, LONG_THRESHOLD_V3 + 1,
     90061}

CurrentEntries ==
    {RunningEntry(e) : e \in ElapsedCases}
    \cup {Entry(60, Timestamp(NowUTC - 60)),
          Entry(-1, [kind |-> "missing"]),
          Entry(-1, [kind |-> "bad"]),
          [t |-> "entry", id |-> 7, hasDuration |-> FALSE, duration |-> 0,
           start |-> Timestamp(NowUTC - 3725)]}

CurrentReplies == {Ok(Null), HttpError, ClientError, Raise} \cup {Ok(e) : e \in CurrentEntries}

Project(id, name) == [id |-> id, name |-> name]

DefaultNet ==
    [current |-> Ok(Null), projects |-> Ok(Null), create |-> Ok(Null),
     patch |-> Ok(Null), report |-> Ok(Null)]

StopNets ==
    {[DefaultNet EXCEPT !.current = c] : c \in {Ok(Null), HttpError, Raise}}
    \cup {[DefaultNet EXCEPT !.current = Ok(RunningEntry(3725)), !.patch = p] :
            p \in {Ok(Entry(3725, Timestamp(NowUTC - 3725))), HttpError, Raise}}

StatusNets == {[DefaultNet EXCEPT !.current = c] : c \in CurrentReplies}

ProjectList == JList(<<Project(1, <<"z">>), Project(2, <<"P", "a">>)>>)

StartNets ==
    {[DefaultNet EXCEPT !.projects = ps] : ps \in {Ok(JList(<<>>)), HttpError, Raise}}
    \cup {[DefaultNet EXCEPT !.projects = Ok(ProjectList), !.create = c] :
            c \in {Ok(RunningEntry(0)), HttpError, Raise}}

ReportNets ==
    {[DefaultNet EXCEPT !.report = r] :
        r \in {Ok([t |-> "dict", data |-> <<>>]), HttpError, Raise}}

\* The provider replies that matter to the command a text asks for
NetFor(text) ==
    LET commands == Tokenize(Strip(text))
    IN IF commands = <<>> THEN {DefaultNet}
       ELSE IF commands[1] = W_stop THEN StopNets
       ELSE IF commands[1] = W_status THEN StatusNets
       ELSE IF commands[1] = W_start THEN StartNets
       ELSE IF commands[1] = W_report THEN ReportNets
       ELSE {DefaultNet}

-----------------------------------------------------------------------------
(* Specification Spec: one server process handling webhook messages *)

\* The tasks of the event loop: check_long_entries and one process_command
LoopTasks == {"sched", "cmd"}

NoCommand ==
    [ran |-> FALSE, user |-> "", text |-> <<>>, response |-> Text("NONE"),
     requests |-> <<>>, net |-> DefaultNet, io |-> "ok"]

InitIdle ==
    /\ last = NoCommand
    /\ schedPc = "load"
    /\ sweepUsers = <<>>
    /\ visited = <<>>
    /\ pc = [w \in 1..NumWorkers |-> "idle"]
    /\ op = [w \in 1..NumWorkers |->
               [kind |-> "none", user |-> "", data |-> <<>>, known |-> FALSE,
                result |-> "pending"]]
    /\ loc = [w \in 1..NumWorkers |-> <<>>]
    /\ obs = [w \in 1..NumWorkers |-> "none"]
    /\ registered = {}
    /\ usage = [u \in Users |-> 0]
    /\ events = [u \in Users |-> 0]
    /\ tasks = {}
    /\ replies = [k \in 1..MaxEvents |-> <<>>]
    /\ BACKGROUND_TASK_STARTED = FALSE
    /\ loops = 0
    /\ starts = 0
    /\ slept = 0
    /\ holder = "none"
    /\ inOp = [t \in LoopTasks |-> "none"]
    /\ step = [t \in LoopTasks |-> [cmd |-> "none", at |-> 1]]
    /\ lockPath = 0
    /\ fds = [w \in 1..NumWorkers |-> 0]
    /\ flocks = [w \in 1..NumWorkers |-> "none"]

Init ==
    /\ variant \in {"main", "v3"}
    /\ file = MissingFile
    /\ InitIdle

\* What open() does with the store file during one command
DiskFor(io) == IF io = "ok" THEN file ELSE OSErrorFile

\* One process_command task, from the text handle_message stripped to the reply
ProcessCommand(user_id, text, net, io) ==
    \E r \in {process_command(user_id, Strip(text), DiskFor(io), net)} :
       /\ last' = [ran |-> TRUE, user |-> user_id, text |-> text,
                   response |-> r.response, requests |-> r.requests, net |-> net,
                   io |-> io]
       /\ file' = IF io = "ok" THEN r.file ELSE file
       /\ UNCHANGED <<webVars, lifeVars, slept, variant, loopVars, lockVars, schedPc, sweepUsers, visited, pc, op, loc, obs, registered>>

\* The commands tried while open() fails on the store file: one text for each
\* handler that opens it
DiskErrorMessages ==
    {Join(<<W_register, <<"B", "o">>, <<"K", "1">>, <<"1", "2">>>>),
     Join(<<W_register, <<"B", "o">>, <<"K", "1">>, <<"x", "1">>>>),
     Join(<<W_start, <<"p", "a">>>>),
     W_stop, W_status, W_report}

Command ==
    \E user_id \in Users :
        \/ \E text \in Messages :
              \E net \in NetFor(text) : ProcessCommand(user_id, text, net, "ok")
        \/ \E text \in DiskErrorMessages :
              ProcessCommand(user_id, text, DefaultNet, "os_error")

Next == Command

Spec == Init /\ [][Next]_vars

-----------------------------------------------------------------------------
(* Specification SpecWeb: the webhook path of one server process.           *)
(* handle_message runs without suspension and creates one process_command  *)
(* task per message event; the event loop runs the tasks later, in any      *)
(* order of completion.                                                     *)

\* The number of message events handled so far
Total(n) == n["U1"] + n["U2"]

\* record_usage(user_id), uninterrupted: a user without an entry counts from 0
\* (the last_used stamp is left out)
record_usage(u, user_id) == [u EXCEPT ![user_id] = @ + 1]

\* A reply that is skipped when the response is the empty string
reply_message_SkipEmpty(sent, response) ==
    IF response = Text("EMPTY") THEN sent ELSE Append(sent, response)

\* MessagingApi(api_client).reply_message(...) at the end of process_command:
\* the calls made with this reply token
reply_message(sent, response) == Append(sent, response)

\* A command that can succeed, one that fails validation and an unknown word
WebMessages == {W_stop \o <<" ">>, W_start, <<"x">>}

WebNets ==
    {[DefaultNet EXCEPT !.current = Raise],
     [DefaultNet EXCEPT !.current = Ok(RunningEntry(3725)),
                        !.patch = Ok(Entry(3725, Timestamp(NowUTC - 3725)))]}

\* handle_message(event): strip the text, record the usage, create the task
HandleMessage ==
    /\ Total(events) < MaxEvents
    /\ \E user_id \in Users, text \in WebMessages :
         /\ usage' = record_usage(usage, user_id)
         /\ events' = [events EXCEPT ![user_id] = @ + 1]
         /\ tasks' = tasks \cup {[reply_token |-> Total(events) + 1,
                                   user_id |-> user_id,
                                   message |-> Strip(text)]}
    /\ UNCHANGED <<replies, lifeVars, slept, variant, loopVars, lockVars, file, last, schedPc, sweepUsers,
                   visited, pc, op, loc, obs, registered>>

\* One process_command task runs to its end
RunTask(t) ==
    /\ t \in tasks
    /\ \E net \in WebNets, io \in {"ok", "os_error"} :
         \E r \in {process_command(t.user_id, t.message, DiskFor(io), net)} :
            /\ file' = IF io = "ok" THEN r.file ELSE file
            /\ replies' = [replies EXCEPT
                              ![t.reply_token] = reply_message(@, r.response)]
    /\ tasks' = tasks \ {t}
    /\ UNCHANGED <<usage, events, lifeVars, slept, variant, loopVars, lockVars, last, schedPc, sweepUsers,
                   visited, pc, op, loc, obs, registered>>

\* The tasks that can exist
Tasks ==
    [reply_token : 1..MaxEvents, user_id : Users, message : {Strip(m) : m \in WebMessages}]

\* The event loop resumes a task that can go on
RunSomeTask == \E t \in Tasks : RunTask(t)

NextWeb == HandleMessage \/ RunSomeTask

\* U1 has registered with 'register Bo K1 12', U2 has not
InitWeb ==
    /\ variant \in {"main", "v3"}
    /\ file = save_user_credentials(MissingFile, "U1",
                 [user_name |-> <<"b", "o">>, api_key |-> <<"k", "1">>,
                  workspace_id |-> <<"1", "2">>])
    /\ InitIdle

SpecWeb == InitWeb /\ [][NextWeb]_vars

\* The event loop does not stop while a task is pending
SpecWebFair == SpecWeb /\ WF_vars(RunSomeTask)

-----------------------------------------------------------------------------
(* Specification SpecDisk: one server process started on a store file left  *)
(* by earlier runs, whatever its content.                                   *)

OneRecord ==
    <<[id |-> "U1", rec |-> [user_name |-> <<"b", "o">>, api_key |-> <<"k", "1">>,
                             workspace_id |-> <<"1", "2">>]]>>

DiskContents ==
    {MissingFile, EmptyFile, JsonFile(<<>>), JsonFile(OneRecord), CorruptFile,
     NotMappingFile, BadBytesFile}

DiskCommand ==
    \E user_id \in Users, text \in DiskErrorMessages :
        ProcessCommand(user_id, text, DefaultNet, "ok")

NextDisk == DiskCommand

InitDisk ==
    /\ variant \in {"main", "v3"}
    /\ file \in DiskContents
    /\ InitIdle

SpecDisk == InitDisk /\ [][NextDisk]_vars

-----------------------------------------------------------------------------
(* Specification SpecReport: the report command of a registered user of     *)
(* src/main.py, for the entry lists the provider can answer with.           *)

DayOne == 100

\* The ISO text of a start: day and time of day on the wall clock of a zone
\* whose UTC offset is off seconds
StartAt(day, hour, minute, off) ==
    [kind |-> "ts", wall |-> day * 86400 + hour * 3600 + minute * 60, off |-> off]

Str(s) == [kind |-> "str", val |-> s]
Ms(n) == [kind |-> "int", val |-> n]
Missing == [kind |-> "missing"]

LongDescription == [i \in 1..(DESCRIPTION_SLICE + 5) |-> IF i <= DESCRIPTION_SLICE THEN "d" ELSE "x"]

\* 09:00 of day one in JST, one hour, project P, description D; an entry of
\* the same JST day given in UTC (20:30 of the day before), without project;
\* an entry of the next day; and entries that lack a start, whose start or dur
\* does not parse, or whose project or description is null
ReportEntryKinds ==
    {ReportEntry(StartAt(DayOne, 9, 0, JST_OFFSET), Ms(MS_PER_HOUR), Str(<<"P">>), Str(<<"D">>)),
     ReportEntry(StartAt(DayOne - 1, 20, 30, 0), Ms(90 * MS_PER_MINUTE), Missing,
                 Str(LongDescription)),
     ReportEntry(StartAt(DayOne + 1, 23, 59, JST_OFFSET), Ms(61 * MS_PER_MINUTE + 59999),
                 Str(<<"P">>), Missing),
     ReportEntry(Missing, Ms(MS_PER_HOUR), Str(<<"P">>), Str(<<"D">>)),
     ReportEntry([kind |-> "bad"], Ms(MS_PER_HOUR), Str(<<"P">>), Str(<<"D">>)),
     ReportEntry(StartAt(DayOne + 2, 9, 0, JST_OFFSET), [kind |-> "bad"], Str(<<"P">>),
                 Str(<<"D">>)),
     ReportEntry(StartAt(DayOne + 2, 10, 0, JST_OFFSET), Ms(MS_PER_HOUR), [kind |-> "null"],
                 Str(<<"D">>)),
     ReportEntry(StartAt(DayOne, 11, 0, JST_OFFSET), Ms(2 * MS_PER_HOUR), Str(<<"P">>),
                 [kind |-> "null"])}

\* More well-formed entries than the detail section shows, on three days
ManyEntries ==
    [i \in 1..(REPORT_DETAIL_LINES + 2) |->
        ReportEntry(StartAt(DayOne + (i % 3), 9, i, JST_OFFSET), Ms(i * MS_PER_MINUTE),
                    Str(<<"P">>), Str(<<"D">>))]

ReportInputs ==
    UNION {[1..n -> ReportEntryKinds] : n \in 0..MaxEntries} \cup {ManyEntries}

ReportNet(entries) == [DefaultNet EXCEPT !.report = Ok([t |-> "dict", data |-> entries])]

\* U1 sends 'report' and the provider answers with a list of entries (one
\* request in a behaviour: format_report keeps nothing from call to call)
Report ==
    /\ ~last.ran
    /\ \E entries \in ReportInputs :
          ProcessCommand("U1", W_report, ReportNet(entries), "ok")

NextReport == Report

\* U1 has registered with 'register Bo K1 12'
InitReport ==
    /\ variant = "main"
    /\ file = save_user_credentials(MissingFile, "U1",
                 [user_name |-> <<"b", "o">>, api_key |-> <<"k", "1">>,
                  workspace_id |-> <<"1", "2">>])
    /\ InitIdle

SpecReport == InitReport /\ [][NextReport]_vars

-----------------------------------------------------------------------------
(* Specification SpecUsage: several server processes, each running           *)
(* record_usage on the same usage file.  A load is one step (the detail of  *)
(* its lock is in SpecStore); a save is two: open(filename, "w+"), which     *)
(* truncates the file before any lock is taken, and the close that flushes  *)
(* the dumped text.  The file is given by the counts a load would decode    *)
(* from it: a truncated file decodes to no entry at all.                    *)

NoUsage == [u \in Users |-> 0]

InFlight == Cardinality({w \in 1..NumWorkers : pc[w] # "idle"})

\* handle_message calls record_usage: usage = safe_load_json(USAGE_LOG_FILE),
\* then the entry of the user is created or incremented in memory.  The
\* events of one user are delivered one after the other: only events of
\* different users overlap.
UsageLoad(w) ==
    /\ pc[w] = "idle"
    /\ Total(events) + InFlight < MaxEvents
    /\ \E user_id \in Users :
         /\ \A x \in 1..NumWorkers : pc[x] # "idle" => op[x].user # user_id
         /\ op' = [op EXCEPT ![w] = [kind |-> "usage", user |-> user_id, data |-> <<>>,
                                     known |-> FALSE, result |-> "pending"]]
         /\ loc' = [loc EXCEPT ![w] = record_usage(usage, user_id)]
    /\ pc' = [pc EXCEPT ![w] = "u_open"]
    /\ UNCHANGED <<webVars, lifeVars, slept, variant, loopVars, lockVars, file, last, schedPc, sweepUsers,
                   visited, obs, registered>>

\* safe_save_json: open(USAGE_LOG_FILE, "w+") truncates the file
UsageOpen(w) ==
    /\ pc[w] = "u_open"
    /\ usage' = NoUsage
    /\ pc' = [pc EXCEPT ![w] = "u_close"]
    /\ UNCHANGED <<events, tasks, replies, lifeVars, slept, variant, loopVars, lockVars, file, last, schedPc,
                   sweepUsers, visited, op, loc, obs, registered>>

\* safe_save_json: the with block closes the file, the dumped mapping reaches
\* the disk, and record_usage returns
UsageClose(w) ==
    /\ pc[w] = "u_close"
    /\ usage' = loc[w]
    /\ events' = [events EXCEPT ![op[w].user] = @ + 1]
    /\ op' = [op EXCEPT ![w].result = "saved"]
    /\ loc' = [loc EXCEPT ![w] = <<>>]
    /\ pc' = [pc EXCEPT ![w] = "idle"]
    /\ UNCHANGED <<tasks, replies, lifeVars, slept, variant, loopVars, lockVars, file, last, schedPc,
                   sweepUsers, visited, obs, registered>>

NextUsage == \E w \in 1..NumWorkers : UsageLoad(w) \/ UsageOpen(w) \/ UsageClose(w)

SpecUsage == Init /\ [][NextUsage]_vars

-----------------------------------------------------------------------------
(* Reminder scheduler: check_long_entries *)

Threshold == IF variant = "main" THEN LONG_THRESHOLD_MAIN ELSE LONG_THRESHOLD_V3

\* "if elapsed >= threshold" in place of "if elapsed > threshold"
ExceedsThreshold_AtOrAbove(elapsed) == elapsed >= Threshold

\* if elapsed > 10 (src/main.py), if elapsed > 10800 (src/v3.py)
ExceedsThreshold(elapsed) == elapsed > Threshold

\* datetime.fromisoformat(s).replace(tzinfo=UTC): the wall-clock fields read as UTC
ReplaceTzUTC(ts) == ts.wall

Visit(user_id, reply, pushes, error) ==
    [user |-> user_id, reply |-> reply, pushes |-> pushes, error |-> error]

\* The body of the for loop for one (user_id, creds): the pushes attempted and
\* whether an exception reached the per-user except clause
check_user(user_id, creds, net, pushOk) ==
    LET entry == get_current_entry(creds, net)
        elapsed == NowUTC - ReplaceTzUTC(entry.val.start)
        message == [to |-> user_id, hours |-> elapsed \div 3600,
                    mins |-> (elapsed % 3600) \div 60]
    IN IF entry.raised THEN Visit(user_id, net.current, <<>>, TRUE)
       ELSE IF ~(Truthy(entry.val) /\ IsRunning(entry.val))
            THEN Visit(user_id, net.current, <<>>, FALSE)
       ELSE IF ~StartParses(entry.val) THEN Visit(user_id, net.current, <<>>, TRUE)
       ELSE IF ~ExceedsThreshold(elapsed) THEN Visit(user_id, net.current, <<>>, FALSE)
       ELSE Visit(user_id, net.current, <<message>>, ~pushOk)

\* An exception escaping the loop body would end the sweep
AfterVisit_AbortOnError(v) == IF v.error THEN "sleep" ELSE "sweep"

\* except Exception inside the for loop: the loop goes on with the next user
AfterVisit(v) == "sweep"

SchedReplies ==
    {Ok(Null), HttpError, Raise,
     Ok(Entry(60, Timestamp(NowUTC - 60))),
     Ok(Entry(-1, [kind |-> "missing"])),
     Ok(Entry(-1, [kind |-> "bad"]))}
    \cup {Ok(RunningEntry(e)) : e \in ElapsedCases}

\* REMIND_INTERVAL of the running source file
REMIND_INTERVAL == IF variant = "main" THEN REMIND_INTERVAL_MAIN ELSE REMIND_INTERVAL_V3

\* A lifespan start that never sets the flag
lifespan_FlagNeverSet(flag, created) == [flag |-> flag, created |-> created + 1]

\* lifespan, up to its yield: the flag and the number of check_long_entries
\* tasks created, after a start that found them as given
lifespan(flag, created) ==
    IF ~flag THEN [flag |-> TRUE, created |-> created + 1]
    ELSE [flag |-> flag, created |-> created]

\* The application starts: lifespan runs up to its yield
Lifespan ==
    /\ starts < MaxStarts
    /\ starts' = starts + 1
    /\ \E r \in {lifespan(BACKGROUND_TASK_STARTED, loops)} :
         /\ BACKGROUND_TASK_STARTED' = r.flag
         /\ loops' = r.created
    /\ UNCHANGED <<webVars, slept, variant, loopVars, lockVars, file, last, schedPc, sweepUsers, visited,
                   pc, op, loc, obs, registered>>

\* Without the outer try an exception ends the task
AfterOuterError_TaskEnds == "dead"

\* except Exception (outer): log, await asyncio.sleep(60), next iteration
AfterOuterError == "backoff"

\* A sleep that is skipped when a user of the sweep ended in the except clause
SleepAfterSweep_SkippedAfterError(vs) ==
    IF \E i \in 1..Len(vs) : vs[i].error THEN 0 ELSE REMIND_INTERVAL

\* await asyncio.sleep(REMIND_INTERVAL) after the for loop, whatever the sweep
\* did for its users
SleepAfterSweep(vs) == REMIND_INTERVAL

\* users = safe_load_json(TOGGL_USERS_FILE), or an OSError of its open() that
\* reaches the outer except clause
SweepLoad ==
    /\ loops > 0
    /\ schedPc = "load"
    /\ \/ /\ sweepUsers' = safe_load_json(file)
          /\ visited' = <<>>
          /\ schedPc' = "sweep"
          /\ slept' = 0
       \/ /\ schedPc' = AfterOuterError
          /\ slept' = BACKOFF_SLEEP
          /\ UNCHANGED <<sweepUsers, visited>>
    /\ UNCHANGED <<webVars, lifeVars, variant, loopVars, lockVars, file, last, pc, op, loc, obs, registered>>

\* One iteration of "for user_id, creds in users.items()"
CheckUser ==
    /\ schedPc = "sweep"
    /\ Len(visited) < Len(sweepUsers)
    /\ \E reply \in SchedReplies, pushOk \in BOOLEAN :
         \E v \in {check_user(sweepUsers[Len(visited) + 1].id,
                              sweepUsers[Len(visited) + 1].rec,
                              [DefaultNet EXCEPT !.current = reply], pushOk)} :
            /\ visited' = Append(visited, v)
            /\ schedPc' = AfterVisit(v)
    /\ UNCHANGED <<webVars, lifeVars, slept, variant, loopVars, lockVars, file, last, sweepUsers, pc, op, loc, obs, registered>>

\* The for loop is exhausted: await asyncio.sleep(REMIND_INTERVAL) begins
SweepEnd ==
    /\ schedPc = "sweep"
    /\ Len(visited) = Len(sweepUsers)
    /\ schedPc' = "sleep"
    /\ slept' = SleepAfterSweep(visited)
    /\ UNCHANGED <<webVars, lifeVars, variant, loopVars, lockVars, file, last, sweepUsers, visited, pc, op, loc, obs, registered>>

\* The sleep returns and the while loop starts over
Wake ==
    /\ schedPc \in {"sleep", "backoff"}
    /\ schedPc' = "load"
    /\ UNCHANGED <<webVars, lifeVars, slept, variant, loopVars, lockVars, file, last, sweepUsers, visited, pc, op, loc, obs, registered>>

\* Registrations arriving while the scheduler runs
SchedRegisterMessage == Join(<<W_register, <<"B", "o">>, <<"K", "1">>, <<"1", "2">>>>)

Register ==
    \E user_id \in Users : ProcessCommand(user_id, SchedRegisterMessage, DefaultNet, "ok")

NextSched == Lifespan \/ Register \/ SweepLoad \/ CheckUser \/ SweepEnd \/ Wake

SpecSched == Init /\ [][NextSched]_vars

\* The event loop runs the lifespan start at startup and resumes the scheduler
\* task whenever it can go on
SpecSchedFair ==
    /\ SpecSched
    /\ WF_vars(Lifespan)
    /\ WF_vars(SweepLoad)
    /\ WF_vars(CheckUser)
    /\ WF_vars(SweepEnd)
    /\ WF_vars(Wake)

-----------------------------------------------------------------------------
(* Specification SpecLoop: the asyncio event loop of one server process,    *)
(* with the check_long_entries task and one process_command task at a time. *)
(* A task is a sequence of network and file operations.  An operation that  *)
(* is awaited on the loop (aiohttp, asyncio.sleep) suspends the task while  *)
(* it is in flight; an operation made by a plain call runs on the loop's    *)
(* thread from its start to its end.                                        *)

\* The operation suspends its task: the provider request is
\* "async with self._session.request(...)" and "await resp.json()", the sleep
\* is "await asyncio.sleep(...)"; safe_load_json and safe_save_json are plain
\* functions doing open / flock / read / dump, and push_message and
\* reply_message are calls of the synchronous MessagingApi, none of them awaited
Suspends(kind) == kind \in {"provider", "sleep"}

\* One iteration of check_long_entries over one user with a long-running
\* entry: load the users, get the current entry, push, sleep
SchedOps == <<"store", "provider", "push", "sleep">>

LoopCommands == {"register", "start", "stop", "status", "report", "help"}

\* The operations of process_command for a registered user, by command:
\* register loads and saves the store; start lists the projects and creates
\* the entry; stop gets the current entry and stops it; every command ends
\* with the reply
CommandOps(cmd) ==
    CASE cmd = "register" -> <<"store", "store", "reply">>
      [] cmd = "start" -> <<"store", "provider", "provider", "reply">>
      [] cmd = "stop" -> <<"store", "provider", "provider", "reply">>
      [] cmd = "status" -> <<"store", "provider", "reply">>
      [] cmd = "report" -> <<"store", "provider", "reply">>
      [] cmd = "help" -> <<"reply">>
      [] OTHER -> <<>>

\* The operations a task has to do
Ops(t) ==
    IF t = "sched" THEN (IF loops > 0 THEN SchedOps ELSE <<>>)
    ELSE CommandOps(step[t].cmd)

\* handle_message: asyncio.create_task(process_command(...)), once the
\* previous command has been answered
CreateCommandTask ==
    /\ holder = "none"
    /\ inOp["cmd"] = "none"
    /\ step["cmd"].at > Len(Ops("cmd"))
    /\ \E cmd \in LoopCommands : step' = [step EXCEPT !["cmd"] = [cmd |-> cmd, at |-> 1]]
    /\ UNCHANGED <<holder, inOp, lockVars, webVars, lifeVars, slept, variant, file, last,
                   schedPc, sweepUsers, visited, pc, op, loc, obs, registered>>

\* The loop runs task t up to the start of its next operation
BeginOp(t) ==
    /\ holder = "none"
    /\ inOp[t] = "none"
    /\ step[t].at <= Len(Ops(t))
    /\ \E kind \in {Ops(t)[step[t].at]} :
         /\ inOp' = [inOp EXCEPT ![t] = kind]
         /\ holder' = IF Suspends(kind) THEN "none" ELSE t
    /\ UNCHANGED <<step, lockVars, webVars, lifeVars, slept, variant, file, last,
                   schedPc, sweepUsers, visited, pc, op, loc, obs, registered>>

\* The operation of task t ends: a suspended task is resumed when the loop is
\* free, a plain call returns; check_long_entries starts over after its sleep
EndOp(t) ==
    /\ inOp[t] # "none"
    /\ holder = IF Suspends(inOp[t]) THEN "none" ELSE t
    /\ inOp' = [inOp EXCEPT ![t] = "none"]
    /\ holder' = "none"
    /\ step' = [step EXCEPT ![t].at =
                  IF t = "sched" /\ step[t].at = Len(SchedOps) THEN 1 ELSE step[t].at + 1]
    /\ UNCHANGED <<lockVars, webVars, lifeVars, slept, variant, file, last,
                   schedPc, sweepUsers, visited, pc, op, loc, obs, registered>>

NextLoop ==
    \/ Lifespan
    \/ CreateCommandTask
    \/ \E t \in LoopTasks : BeginOp(t) \/ EndOp(t)

SpecLoop == Init /\ [][NextLoop]_vars

-----------------------------------------------------------------------------
(* Specification SpecStore: several server processes, each running            *)
(* save_user_credentials and get_toggl_credentials on the same store file,   *)
(* one system call at a time.  fcntl.flock is the only thing that makes a     *)
(* process wait for another.                                                  *)

Workers == 1..NumWorkers

StoreRecords ==
    {[user_name |-> <<"b", "o">>, api_key |-> <<"k", "1">>, workspace_id |-> <<"1", "2">>],
     [user_name |-> Take(LongName, NAME_SLICE), api_key |-> <<"k", "1">>,
      workspace_id |-> <<"1", "2">>]}

HoldsShared(w) == pc[w] \in {"l_read", "l_unlock"}
HoldsExclusive(w) == pc[w] \in {"s_dump", "s_unlock"}

\* save_user_credentials(user_id, data) is called
StartRegister(w) ==
    /\ pc[w] = "idle"
    /\ \E u \in Users, d \in StoreRecords :
         op' = [op EXCEPT ![w] = [kind |-> "register", user |-> u, data |-> d,
                                  known |-> u \in registered, result |-> "pending"]]
    /\ pc' = [pc EXCEPT ![w] = "l_open"]
    /\ UNCHANGED <<webVars, lifeVars, slept, variant, loopVars, lockVars, file, last, schedPc, sweepUsers, visited, loc, obs, registered>>

\* get_toggl_credentials(user_id) is called
StartLookup(w) ==
    /\ pc[w] = "idle"
    /\ \E u \in Users :
         op' = [op EXCEPT ![w] = [kind |-> "lookup", user |-> u, data |-> <<>>,
                                  known |-> u \in registered, result |-> "pending"]]
    /\ pc' = [pc EXCEPT ![w] = "l_open"]
    /\ UNCHANGED <<webVars, lifeVars, slept, variant, loopVars, lockVars, file, last, schedPc, sweepUsers, visited, loc, obs, registered>>

\* safe_load_json has returned m to the operation of worker w
LoadReturns(w, m) ==
    IF op[w].kind = "lookup"
    THEN /\ op' = [op EXCEPT ![w].result = IF Has(m, op[w].user) THEN "found" ELSE "none"]
         /\ loc' = [loc EXCEPT ![w] = <<>>]
         /\ pc' = [pc EXCEPT ![w] = "idle"]
    ELSE /\ loc' = [loc EXCEPT ![w] = Put(m, op[w].user, op[w].data)]
         /\ pc' = [pc EXCEPT ![w] = "s_open"]
         /\ op' = op

\* open(filename, "r+"): FileNotFoundError makes safe_load_json return {}
LoadOpen(w) ==
    /\ pc[w] = "l_open"
    /\ IF file.kind = "missing"
       THEN /\ obs' = [obs EXCEPT ![w] = "missing"]
            /\ LoadReturns(w, <<>>)
       ELSE /\ pc' = [pc EXCEPT ![w] = "l_lock"]
            /\ UNCHANGED <<obs, op, loc>>
    /\ UNCHANGED <<webVars, lifeVars, slept, variant, loopVars, lockVars, file, last, schedPc, sweepUsers, visited, registered>>

\* fcntl.flock(f, fcntl.LOCK_SH): waits while another open file holds LOCK_EX
LoadLock(w) ==
    /\ pc[w] = "l_lock"
    /\ \A x \in Workers \ {w} : ~HoldsExclusive(x)
    /\ pc' = [pc EXCEPT ![w] = "l_read"]
    /\ UNCHANGED <<webVars, lifeVars, slept, variant, loopVars, lockVars, file, last, schedPc, sweepUsers, visited, op, loc, obs, registered>>

\* content = f.read(); json.loads(content) if content else {}
LoadRead(w) ==
    /\ pc[w] = "l_read"
    /\ obs' = [obs EXCEPT ![w] = file.kind]
    /\ loc' = [loc EXCEPT ![w] = DecodeContent(file)]
    /\ pc' = [pc EXCEPT ![w] = "l_unlock"]
    /\ UNCHANGED <<webVars, lifeVars, slept, variant, loopVars, lockVars, file, last, schedPc, sweepUsers, visited, op, registered>>

\* finally: fcntl.flock(f, fcntl.LOCK_UN), and safe_load_json returns
LoadUnlock(w) ==
    /\ pc[w] = "l_unlock"
    /\ LoadReturns(w, loc[w])
    /\ UNCHANGED <<webVars, lifeVars, slept, variant, loopVars, lockVars, file, last, schedPc, sweepUsers, visited, obs, registered>>

\* open(filename, "w+"): creates the file or truncates it to length 0
SaveOpen(w) ==
    /\ pc[w] = "s_open"
    /\ file' = EmptyFile
    /\ pc' = [pc EXCEPT ![w] = "s_lock"]
    /\ UNCHANGED <<webVars, lifeVars, slept, variant, loopVars, lockVars, last, schedPc, sweepUsers, visited, op, loc, obs, registered>>

\* fcntl.flock(f, fcntl.LOCK_EX): waits while another open file holds a lock
SaveLock(w) ==
    /\ pc[w] = "s_lock"
    /\ \A x \in Workers \ {w} : ~HoldsExclusive(x) /\ ~HoldsShared(x)
    /\ pc' = [pc EXCEPT ![w] = "s_dump"]
    /\ UNCHANGED <<webVars, lifeVars, slept, variant, loopVars, lockVars, file, last, schedPc, sweepUsers, visited, op, loc, obs, registered>>

\* json.dump(data, f, indent=2, ensure_ascii=False): the text stays in the
\* file object's buffer (a store of a few users is far below the buffer size)
SaveDump(w) ==
    /\ pc[w] = "s_dump"
    /\ pc' = [pc EXCEPT ![w] = "s_unlock"]
    /\ UNCHANGED <<webVars, lifeVars, slept, variant, loopVars, lockVars, file, last, schedPc, sweepUsers, visited, op, loc, obs, registered>>

\* finally: fcntl.flock(f, fcntl.LOCK_UN)
SaveUnlock(w) ==
    /\ pc[w] = "s_unlock"
    /\ pc' = [pc EXCEPT ![w] = "s_close"]
    /\ UNCHANGED <<webVars, lifeVars, slept, variant, loopVars, lockVars, file, last, schedPc, sweepUsers, visited, op, loc, obs, registered>>

\* The with block closes the file: the buffer is flushed to disk, and
\* save_user_credentials returns
SaveClose(w) ==
    /\ pc[w] = "s_close"
    /\ file' = WriteAtZero(file, loc[w])
    /\ registered' = registered \cup {op[w].user}
    /\ op' = [op EXCEPT ![w].result = "saved"]
    /\ loc' = [loc EXCEPT ![w] = <<>>]
    /\ pc' = [pc EXCEPT ![w] = "idle"]
    /\ UNCHANGED <<webVars, lifeVars, slept, variant, loopVars, lockVars, last, schedPc, sweepUsers, visited, obs>>

NextStore ==
    \E w \in Workers :
        \/ StartRegister(w)
        \/ StartLookup(w)
        \/ LoadOpen(w)
        \/ LoadLock(w)
        \/ LoadRead(w)
        \/ LoadUnlock(w)
        \/ SaveOpen(w)
        \/ SaveLock(w)
        \/ SaveDump(w)
        \/ SaveUnlock(w)
        \/ SaveClose(w)

InitStore ==
    /\ variant = "main"
    /\ file = MissingFile
    /\ InitIdle

SpecStore == InitStore /\ [][NextStore]_vars

-----------------------------------------------------------------------------
(* Specification SpecLock: tasks and processes calling the accessors of one *)
(* store file, each call one of safe_load_json, safe_save_json,             *)
(* async_load_json, async_save_json, followed through its lock steps.  The  *)
(* synchronous accessors flock the store file itself; the asynchronous ones *)
(* flock the file "<filename>.lock", which AsyncFileLock creates on entry   *)
(* and removes on exit.  What the body of an accessor finds in the store    *)
(* file is left open: it ends normally, with a decode failure or with an    *)
(* I/O or serialisation error.                                              *)

Accessors == {"safe_load", "safe_save", "async_load", "async_save"}

IsAsync(w) == op[w].kind \in {"async_load", "async_save"}
IsLoad(w) == op[w].kind \in {"safe_load", "async_load"}

\* How the body of an accessor can end: json.loads raises JSONDecodeError in a
\* load; read, write and json.dump raise OSError, UnicodeDecodeError, TypeError
Outcomes(w) == IF IsLoad(w) THEN {"ok", "decode_failure", "io_error"} ELSE {"ok", "io_error"}

\* The call returns (a load turns a decode failure into {}) or raises
ResultOf(w, outcome) ==
    IF outcome = "ok" \/ (IsLoad(w) /\ outcome = "decode_failure")
    THEN "returned" ELSE "raised"

\* An exit path that unlocks only after a body that ended normally
flock_after_exit_SuccessOnly(held, outcome) == IF outcome = "ok" THEN "none" ELSE held

\* The flock held once the exit path of an accessor has run: "finally:
\* fcntl.flock(f, fcntl.LOCK_UN)" of safe_load_json and safe_save_json, and the
\* first statement of AsyncFileLock.__aexit__, which "async with" runs however
\* the body ended
flock_after_exit(held, outcome) == "none"

\* Everything the lock steps leave alone
lockRest ==
    <<webVars, lifeVars, loopVars, slept, variant, file, last, schedPc, sweepUsers,
      visited, loc, obs, registered>>

\* An accessor is called
Call(w) ==
    /\ pc[w] = "idle"
    /\ \E kind \in Accessors :
         op' = [op EXCEPT ![w] = [@ EXCEPT !.kind = kind, !.result = "pending"]]
    /\ pc' = [pc EXCEPT ![w] = "open"]
    /\ UNCHANGED <<lockPath, fds, flocks, lockRest>>

\* safe_load_json: open(filename, "r+"), where FileNotFoundError makes the
\* call return {}; safe_save_json: open(filename, "w+")
sync_open(w) ==
    /\ pc[w] = "open"
    /\ ~IsAsync(w)
    /\ \/ /\ IsLoad(w)
          /\ pc' = [pc EXCEPT ![w] = "idle"]
          /\ op' = [op EXCEPT ![w].result = "returned"]
       \/ /\ pc' = [pc EXCEPT ![w] = "flock"]
          /\ op' = op
    /\ UNCHANGED <<lockPath, fds, flocks, lockRest>>

\* Another accessor holds a flock on the store file that excludes the one w asks for
SyncBlocked(w) ==
    \E x \in 1..NumWorkers \ {w} :
        /\ ~IsAsync(x)
        /\ flocks[x] # "none"
        /\ (IsLoad(w) => flocks[x] = "ex")

\* fcntl.flock(f, LOCK_SH) of a load, fcntl.flock(f, LOCK_EX) of a save: the
\* call waits until the lock is granted
sync_flock(w) ==
    /\ pc[w] = "flock"
    /\ ~SyncBlocked(w)
    /\ flocks' = [flocks EXCEPT ![w] = IF IsLoad(w) THEN "sh" ELSE "ex"]
    /\ pc' = [pc EXCEPT ![w] = "body"]
    /\ UNCHANGED <<lockPath, fds, op, lockRest>>

\* The body under the lock (read and json.loads, or json.dump) ends, and
\* finally: fcntl.flock(f, fcntl.LOCK_UN) runs; the call returns or raises
sync_exit(w) ==
    /\ pc[w] = "body"
    /\ ~IsAsync(w)
    /\ \E outcome \in Outcomes(w) :
         /\ flocks' = [flocks EXCEPT ![w] = flock_after_exit(@, outcome)]
         /\ op' = [op EXCEPT ![w].result = ResultOf(w, outcome)]
    /\ pc' = [pc EXCEPT ![w] = "idle"]
    /\ UNCHANGED <<lockPath, fds, lockRest>>

\* An inode no name and no open file refers to
FreshInode ==
    CHOOSE i \in 1..(NumWorkers + 1) : i # lockPath /\ \A w \in 1..NumWorkers : fds[w] # i

\* __aenter__: self.file = await aiofiles.open(self.lockfile, "w"), which
\* creates the lock file when the name does not exist
aenter_open(w) ==
    /\ pc[w] = "open"
    /\ IsAsync(w)
    /\ \E inode \in {IF lockPath = 0 THEN FreshInode ELSE lockPath} :
         /\ lockPath' = inode
         /\ fds' = [fds EXCEPT ![w] = inode]
    /\ pc' = [pc EXCEPT ![w] = "try"]
    /\ UNCHANGED <<flocks, op, lockRest>>

\* Another open file holds the flock of the inode w has open
AsyncBlocked(w) ==
    \E x \in 1..NumWorkers \ {w} : IsAsync(x) /\ flocks[x] = "ex" /\ fds[x] = fds[w]

\* __aenter__: fcntl.flock(self.file, LOCK_EX | LOCK_NB); return self, or
\* BlockingIOError and the sleep
aenter_flock(w) ==
    /\ pc[w] = "try"
    /\ IF AsyncBlocked(w)
       THEN /\ pc' = [pc EXCEPT ![w] = "sleep"]
            /\ flocks' = flocks
       ELSE /\ pc' = [pc EXCEPT ![w] = "body"]
            /\ flocks' = [flocks EXCEPT ![w] = "ex"]
    /\ UNCHANGED <<lockPath, fds, op, lockRest>>

\* __aenter__: await asyncio.sleep(0.1), then the next attempt
aenter_sleep(w) ==
    /\ pc[w] = "sleep"
    /\ pc' = [pc EXCEPT ![w] = "try"]
    /\ UNCHANGED <<lockPath, fds, flocks, op, lockRest>>

\* The body of the "async with" ends, and __aexit__ begins:
\* fcntl.flock(self.file, fcntl.LOCK_UN)
aexit_unlock(w) ==
    /\ pc[w] = "body"
    /\ IsAsync(w)
    /\ \E outcome \in Outcomes(w) :
         /\ flocks' = [flocks EXCEPT ![w] = flock_after_exit(@, outcome)]
         /\ op' = [op EXCEPT ![w].result = ResultOf(w, outcome)]
    /\ pc' = [pc EXCEPT ![w] = "close"]
    /\ UNCHANGED <<lockPath, fds, lockRest>>

\* __aexit__: await self.file.close()
aexit_close(w) ==
    /\ pc[w] = "close"
    /\ fds' = [fds EXCEPT ![w] = 0]
    /\ pc' = [pc EXCEPT ![w] = "remove"]
    /\ UNCHANGED <<lockPath, flocks, op, lockRest>>

\* __aexit__: await aiofiles.os.remove(self.lockfile), FileNotFoundError
\* passed over: the name is gone, whichever inode it led to; the call returns
\* or raises
aexit_remove(w) ==
    /\ pc[w] = "remove"
    /\ lockPath' = 0
    /\ pc' = [pc EXCEPT ![w] = "idle"]
    /\ UNCHANGED <<fds, flocks, op, lockRest>>

\* The steps of accessor w inside a call
LockStep(w) ==
    \/ sync_open(w)
    \/ sync_flock(w)
    \/ sync_exit(w)
    \/ aenter_open(w)
    \/ aenter_flock(w)
    \/ aenter_sleep(w)
    \/ aexit_unlock(w)
    \/ aexit_close(w)
    \/ aexit_remove(w)

NextLock == \E w \in 1..NumWorkers : Call(w) \/ LockStep(w)

SpecLock == InitStore /\ [][NextLock]_vars

\* A call that has begun goes on: the event loop resumes its task, the
\* operating system runs its process
SpecLockFair == SpecLock /\ \A w \in 1..NumWorkers : WF_vars(LockStep(w))

-----------------------------------------------------------------------------
(* Claims about the command dispatcher (specification Spec) *)

\* The words of the latest message as the user typed them
Typed == Split(Strip(last.text))

TypedCommand == IF Typed = <<>> THEN <<>> ELSE LowerStr(Typed[1])

CommandWords == {W_register, W_start, W_stop, W_status, W_report}

\* The store could be read during the latest command and holds a record of
\* its user
LastRegistered == last.io = "ok" /\ get_toggl_credentials(file, last.user).found

IsNonIntegerRegister(text) ==
    LET t == Split(Strip(text))
    IN Len(t) >= 4 /\ LowerStr(t[1]) = W_register /\ ~IsInt(t[4])

\* C1 (as claimed): after 'register NAME KEY WID' with an integer WID, the
\* credential lookup for the user returns the api key exactly as typed, the
\* workspace id as typed and the first 50 characters of NAME as typed.
C1_RegisterStoresWhatWasTyped ==
    (last.ran /\ Len(Typed) = 4 /\ TypedCommand = W_register /\ IsInt(Typed[4]))
        => get_toggl_credentials(file, last.user)
             = [found |-> TRUE,
                rec |-> [user_name |-> Take(Typed[2], NAME_SLICE),
                         api_key |-> Typed[3],
                         workspace_id |-> Typed[4]]]

\* C2: a register command whose third argument is no integer leaves the
\* credential store file as it was and is answered with the 'workspace id must
\* be numeric' message.
C2_NonIntegerRegisterKeepsStore ==
    [][(last'.ran /\ IsNonIntegerRegister(last'.text))
          => (file' = file /\ last'.response = Text("WID_NOT_NUMERIC"))]_vars

C2_Witness ==
    /\ last.ran
    /\ IsNonIntegerRegister(last.text)
    /\ last.response = Text("WID_NOT_NUMERIC")
    /\ LastRegistered

\* C6: when stop finds no running entry for a registered user, the reply is
\* the 'no running entry' message and no PATCH (stop) request is issued.
C6_StopWithoutRunningEntry ==
    (/\ last.ran
     /\ TypedCommand = W_stop
     /\ LastRegistered
     /\ last.net.current \in {Ok(Null), HttpError, ClientError})
        => /\ last.response = Text("NO_RUNNING_ENTRY")
           /\ \A i \in 1..Len(last.requests) : last.requests[i].method # "PATCH"

C6_Witness ==
    /\ last.ran
    /\ TypedCommand = W_stop
    /\ LastRegistered
    /\ last.net.current = Ok(Null)
    /\ last.response = Text("NO_RUNNING_ENTRY")
    /\ Len(last.requests) = 1
    /\ last.requests[1].path = "current"

\* The report command of a registered user that reached get_report
IsReportRequest ==
    /\ last.ran
    /\ TypedCommand = W_report
    /\ LastRegistered
    /\ (Len(Typed) >= 2 => IsInt(Typed[2]))

\* The number of days of the window get_report was asked for
WindowDays == last.requests[1].until - last.requests[1].since

C10_HelpOrUnknownGetsUsageText ==
    [][(last'.ran /\ TypedCommand' \notin CommandWords)
          => /\ last'.response = help_message
             /\ last'.requests = <<>>
             /\ file' = file]_vars

\* The record the store holds for the user of the latest command
LastCreds == Get(DecodeContent(file), last.user)

\* The latest command reached a handler that opens the store while open()
\* fails: every handler but a register that is rejected for its arguments
LookupRaised ==
    /\ last.ran
    /\ last.io = "os_error"
    /\ TypedCommand \in CommandWords
    /\ TypedCommand = W_register => (Len(Typed) >= 4 /\ IsInt(Typed[4]))

\* The latest command made a remote call that raised past the client
RemoteRaised ==
    /\ last.ran
    /\ LastRegistered
    /\ \/ TypedCommand \in {W_stop, W_status} /\ last.net.current = Raise
       \/ TypedCommand = W_start /\ Len(Typed) >= 2 /\ last.net.projects = Raise
       \/ /\ TypedCommand = W_report
          /\ Len(Typed) >= 2 => IsInt(Typed[2])
          /\ variant = "main"
          /\ last.net.report = Raise

HandlerErrorTexts ==
    {Text("START_ERROR"), Text("STOP_ERROR"), Text("STATUS_ERROR"), Text("REPORT_ERROR")}

\* C13: an exception raised inside a command handler, by the credential
\* lookup or by a remote call the client lets through, never leaves
\* process_command before the reply: the command is answered with an error
\* text (the dispatcher's generic one for an exception that left the handler,
\* the handler's own for a remote call that raised) and the store is as before.
C13_HandlerExceptionBecomesErrorReply ==
    /\ last.ran => last.response.tag \notin {"RAISED", "NONE"}
    /\ LookupRaised => (last.response = Text("GENERIC_ERROR") /\ last.requests = <<>>)
    /\ RemoteRaised => last.response \in HandlerErrorTexts

C13_Witness ==
    /\ LookupRaised
    /\ TypedCommand = W_stop
    /\ last.response = Text("GENERIC_ERROR")
    /\ file.kind = "json"

\* The client call a start command made, evaluated again on its inputs
LastStart ==
    start_time_entry(LastCreds.rec, LowerStr(Typed[2]), <<>>, last.net)

\* C14 (as claimed): the confirmation naming the project is replied to
\* 'start P ...' only when start_time_entry returned a created entry; when it
\* returned none the reply is a start-error text.
C14_ConfirmationOnlyWhenEntryCreated ==
    (last.ran /\ LastRegistered /\ TypedCommand = W_start /\ Len(Typed) >= 2)
        => /\ last.response.tag = "STARTED" => Truthy(LastStart.val)
           /\ ~Truthy(LastStart.val) => last.response = Text("START_ERROR")

\* Commands that need the credentials of their user
CredentialCommands == {W_start, W_stop, W_status, W_report}

\* C15: a user with no credential record is answered 'register first' by
\* start, stop, status and report, and no provider request is made; every
\* provider request made for a user carries the api key and the workspace id
\* of that user's own record.
C15_RequestsOnlyWithOwnCredentials ==
    /\ (last.ran /\ last.io = "ok" /\ TypedCommand \in CredentialCommands
            /\ ~LastCreds.found)
          => (last.response = Text("REGISTER_FIRST") /\ last.requests = <<>>)
    /\ \A i \in 1..Len(last.requests) :
          /\ LastCreds.found
          /\ last.requests[i].key = LastCreds.rec.api_key
          /\ last.requests[i].wid = LastCreds.rec.workspace_id

\* An unregistered user is turned away while another user's record, with
\* another key, is in the store
C15_Witness ==
    /\ last.ran
    /\ last.io = "ok"
    /\ TypedCommand = W_status
    /\ ~LastCreds.found
    /\ DecodeContent(file) # <<>>
    /\ last.response = Text("REGISTER_FIRST")
    /\ last.requests = <<>>

\* The client operation the latest command ran, evaluated again on its inputs
LastClientCall ==
    IF TypedCommand = W_stop THEN stop_current_entry(LastCreds.rec, last.net)
    ELSE IF TypedCommand = W_status THEN get_current_entry(LastCreds.rec, last.net)
    ELSE IF TypedCommand = W_start THEN LastStart
    ELSE get_report(LastCreds.rec, Today, Today, last.net)

\* C16 (as claimed): a client operation whose HTTP call ends with an error
\* status or with a transport-level failure (connection error, timeout,
\* undecodable body) returns none or an empty list and never raises.
C16_ClientNeverRaises ==
    (last.ran /\ last.requests # <<>>)
        => /\ ~LastClientCall.raised
           /\ last.response \notin {Text("START_ERROR"), Text("STOP_ERROR"), Text("REPORT_ERROR")}

\* C26 (as claimed): for a registered user whose current entry is running,
\* the hours and minutes of the status reply are those of the whole elapsed
\* time now - start: hours = elapsed seconds div 3600, minutes = the remaining
\* seconds div 60, also when the entry has run for 24 hours and more.
C26_StatusShowsWholeElapsed ==
    (last.ran /\ TypedCommand = W_status /\ LastRegistered
        /\ last.response.tag = "RUNNING")
        => LET elapsed == NowUTC - Instant(last.net.current.body.start)
           IN /\ last.response.hours = elapsed \div 3600
              /\ last.response.mins = (elapsed % 3600) \div 60

\* C27 (as claimed): stop replies 'no running entry' only when the provider
\* reported no running entry: not when the lookup of the current entry failed,
\* and not when a running entry was found and the request that stops it failed.
C27_NoRunningEntryOnlyWhenNoneRunning ==
    (last.ran /\ TypedCommand = W_stop /\ LastRegistered
        /\ last.response = Text("NO_RUNNING_ENTRY"))
        => last.net.current = Ok(Null)

-----------------------------------------------------------------------------
(* Claims about the webhook path (SpecWeb, SpecWebFair, SpecUsage) *)

\* C11 (as claimed): every message event of a user increases the stored
\* usage count of that user by exactly one: once the events delivered so far
\* have been handled, the stored count of every user is the number of that
\* user's events.
C11_UsageCountsEveryEvent ==
    (\A w \in 1..NumWorkers : pc[w] = "idle") => \A u \in Users : usage[u] = events[u]

\* The event with reply token k has been accepted by handle_message
Accepted(k) == Total(events) >= k

\* C12: every accepted message event leads to exactly one reply_message call
\* with its reply token: never more than one, none before the event exists,
\* and eventually one, whichever path process_command takes.
C12_ExactlyOneReplyPerEvent ==
    /\ [](\A k \in 1..MaxEvents :
            /\ Len(replies[k]) <= 1
            /\ Len(replies[k]) = 1 => Accepted(k))
    /\ \A k \in 1..MaxEvents : Accepted(k) ~> (Len(replies[k]) = 1)

\* All events were answered once, one of them through the except clause of
\* process_command and one after a command that succeeded
C12_Witness ==
    /\ Total(events) = MaxEvents
    /\ tasks = {}
    /\ \A k \in 1..MaxEvents : Len(replies[k]) = 1
    /\ \E k \in 1..MaxEvents : replies[k] = <<Text("GENERIC_ERROR")>>
    /\ \E k \in 1..MaxEvents : replies[k][1].tag = "STOPPED"

-----------------------------------------------------------------------------
(* Claims about the reminder scheduler (specification SpecSched) *)

\* The running entry a reply carries, if any
RepliesRunning(reply) ==
    reply.st = "ok" /\ reply.body.t = "entry" /\ reply.body.hasDuration
        /\ reply.body.duration < 0

\* now - start of the entry a reply carries
ElapsedOf(reply) == NowUTC - Instant(reply.body.start)

PushText(user_id, elapsed) ==
    [to |-> user_id, hours |-> elapsed \div 3600, mins |-> (elapsed % 3600) \div 60]

C9_SweepVisitsEveryUserOnce ==
    /\ Len(visited) <= Len(sweepUsers)
    /\ \A i \in 1..Len(visited) : visited[i].user = sweepUsers[i].id
    /\ schedPc = "sleep" => Len(visited) = Len(sweepUsers)

C9_Witness ==
    /\ schedPc = "sleep"
    /\ Len(sweepUsers) = 2
    /\ Len(visited) = 2
    /\ visited[1].error
    /\ visited[2].user = sweepUsers[2].id
    /\ visited[2].user # visited[1].user
    /\ Len(visited[2].pushes) = 1

\* C17: at most one check_long_entries task is ever created, however many
\* times the lifespan start runs: a start that finds BACKGROUND_TASK_STARTED
\* set creates no task.
C17_AtMostOneSchedulerLoop ==
    /\ loops <= 1
    /\ BACKGROUND_TASK_STARTED <=> loops = 1
    /\ starts > 0 => loops = 1

C17_Witness == starts = MaxStarts /\ starts > 1 /\ loops = 1 /\ BACKGROUND_TASK_STARTED

\* C18: the scheduler never stops sweeping: a sweep is always followed by a
\* sleep, an exception caught by the outer handler is followed by the backoff
\* sleep and a return to the top of the loop, and the loop begins a new
\* iteration infinitely often.
C18_SchedulerKeepsSweeping ==
    /\ (schedPc = "sweep") ~> (schedPc = "sleep")
    /\ (schedPc = "backoff") ~> (schedPc = "load")
    /\ []<>(loops > 0 /\ schedPc = "load")
    /\ []<>(schedPc \in {"sweep", "backoff"})

\* After a sweep over a loaded user, a later iteration ended in the outer
\* handler, and the scheduler is back at the top of its loop after the backoff
C18_Witness ==
    /\ loops > 0
    /\ schedPc = "load"
    /\ slept = BACKOFF_SLEEP
    /\ Len(visited) = 1

\* C19 (as claimed): the sleep taken after an exception caught by the outer
\* handler is strictly longer than the regular sleep between two sweeps.
C19_BackoffLongerThanInterval ==
    schedPc = "backoff" => (slept = BACKOFF_SLEEP /\ slept > REMIND_INTERVAL)

\* The scheduler leaves the top of its loop: it loads the mapping, or fails to
LoadStep == schedPc = "load" /\ schedPc' # "load"

\* C20 (as claimed): every sweep, the first one after the start included, is
\* preceded by a sleep of the fixed interval: the mapping is never loaded
\* before the scheduler has slept since the start or since the previous sweep.
C20_EverySweepFollowsASleep ==
    [][LoadStep => slept = REMIND_INTERVAL]_vars

\* C20 (amended): the loop loads first and sleeps afterwards.  The first load
\* happens with no sleep before it; every later load follows a sleep, of
\* REMIND_INTERVAL after a sweep and of 60 seconds after an exception caught
\* by the outer handler; and the top of the loop is only ever reached again
\* from one of these sleeps.
C20_OnlyTheFirstLoadIsWithoutSleep ==
    [][/\ LoadStep =>
            \/ slept = 0 /\ sweepUsers = <<>> /\ visited = <<>>
            \/ slept = REMIND_INTERVAL
            \/ slept = BACKOFF_SLEEP
       /\ (schedPc # "load" /\ schedPc' = "load") =>
            /\ schedPc \in {"sleep", "backoff"}
            /\ slept' = IF schedPc = "sleep" THEN REMIND_INTERVAL ELSE BACKOFF_SLEEP]_vars

\* A second sweep begins after the sleep that followed a sweep over one user
C20_Witness ==
    /\ schedPc = "load"
    /\ slept = REMIND_INTERVAL
    /\ Len(sweepUsers) = 1
    /\ Len(visited) = 1

-----------------------------------------------------------------------------
(* Claims about the content of the store file (specification SpecDisk) *)

\* C23 (as claimed): whatever the store file holds (no file, nothing, text
\* or bytes that are no JSON mapping), loading it returns a mapping and does
\* not raise, so that no command fails in its credential lookup or in its
\* save because of the file's content.
C23_LoadToleratesAnyContent ==
    /\ last.ran => (~LoadRaises(file) /\ ~AsyncLoadRaises(file) /\ ~LoadsNoMapping(file))
    /\ (last.ran /\ last.io = "ok") => last.response # Text("GENERIC_ERROR")

-----------------------------------------------------------------------------
(* Claims about format_report (specification SpecReport) *)

\* The entries the provider answered the latest report request with
ReportedEntries == last.net.report.body.data

\* The entry is processed to its end: it has a start and a dur that parse and
\* a project and a description that are texts or absent
WellFormed(entry) ==
    /\ entry.start.kind = "ts"
    /\ DurParses(entry)
    /\ entry.project.kind # "null"
    /\ entry.description.kind # "null"

WellFormedEntries == SelectSeq(ReportedEntries, WellFormed)

RECURSIVE SumDur(_, _)
SumDur(entries, date) ==
    IF entries = <<>> THEN 0
    ELSE (IF DateJST(Head(entries).start) = date THEN DurOf(Head(entries)) ELSE 0)
            + SumDur(Tail(entries), date)

\* The detail line the claim describes for a well-formed entry
ExpectedDetail(entry) ==
    [date |-> DateJST(entry.start),
     hh |-> (WallJST(entry.start) % 86400) \div 3600,
     mm |-> (WallJST(entry.start) % 3600) \div 60,
     project |-> Take(FieldText(entry.project), PROJECT_SLICE),
     description |-> Take(FieldText(entry.description), DESCRIPTION_SLICE),
     hours |-> DurOf(entry) \div MS_PER_HOUR,
     mins |-> (DurOf(entry) % MS_PER_HOUR) \div MS_PER_MINUTE]

\* C22 (as claimed): format_report outputs one summary line per JST calendar
\* date that has at least one well-formed entry, in ascending date order, whose
\* HH:MM total is the sum of the dur values of the entries starting on that
\* date, followed by detail lines for the last 20 well-formed entries (all of
\* them if fewer), each with the start time, the project, the description and
\* the HH:MM of the entry.
C22_ReportSummaryAndDetails ==
    (last.ran /\ last.response.tag = "REPORT") =>
        LET out == last.response
            shown == LastN(WellFormedEntries, REPORT_DETAIL_LINES)
        IN /\ {out.summary[i].date : i \in 1..Len(out.summary)}
                 = {DateJST(WellFormedEntries[i].start) : i \in 1..Len(WellFormedEntries)}
           /\ \A i, j \in 1..Len(out.summary) :
                 i < j => out.summary[i].date < out.summary[j].date
           /\ \A i \in 1..Len(out.summary) :
                 LET total == SumDur(WellFormedEntries, out.summary[i].date)
                 IN /\ out.summary[i].hours = total \div MS_PER_HOUR
                    /\ out.summary[i].mins = (total % MS_PER_HOUR) \div MS_PER_MINUTE
           /\ out.details = [i \in 1..Len(shown) |-> ExpectedDetail(shown[i])]

\* C28 (as claimed): in format_report an entry is fully reported or fully
\* skipped: an entry whose processing raises adds nothing to the total of any
\* date, so the total shown for a date is the sum of the dur values of the
\* entries of that date that produced a detail line, and a date is shown only
\* if such an entry exists.
C28_EntryReportedOrSkipped ==
    (last.ran /\ last.response.tag = "REPORT") =>
        \A i \in 1..Len(last.response.summary) :
            LET line == last.response.summary[i]
                total == SumDur(WellFormedEntries, line.date)
            IN /\ \E k \in 1..Len(WellFormedEntries) :
                     DateJST(WellFormedEntries[k].start) = line.date
               /\ line.hours = total \div MS_PER_HOUR
               /\ line.mins = (total % MS_PER_HOUR) \div MS_PER_MINUTE

-----------------------------------------------------------------------------
(* Claims about the event loop (specification SpecLoop) *)

\* C21 (as claimed): no task holds the event loop for the duration of a
\* network or file operation: while a task is inside a provider request, a
\* push, a reply or a store access, the loop is free to run the other task.
C21_NoTaskHoldsLoopDuringIO ==
    \A t \in LoopTasks : inOp[t] # "none" => holder # t

-----------------------------------------------------------------------------
(* Claims about the file locks (specifications SpecLock, SpecLockFair) *)

\* Accessor w is between the return of __aenter__ and the start of __aexit__
InCriticalSection(w) == IsAsync(w) /\ pc[w] = "body"

\* C24 (as claimed): for one store filename, at most one task or process is
\* inside an AsyncFileLock critical section at any time.
C24_AsyncLockIsExclusive ==
    Cardinality({w \in 1..NumWorkers : InCriticalSection(w)}) <= 1

\* Accessor w waits for a flock that no accessor holds against it
WaitsAtFreeLock(w) ==
    \/ pc[w] = "flock" /\ ~SyncBlocked(w)
    \/ pc[w] \in {"try", "sleep"} /\ ~AsyncBlocked(w)

\* C25: every load and every save releases the lock it acquired on every
\* exit path: an accessor whose body has ended, normally or with a decode
\* failure or an error, holds no flock once its exit path has run, so that an
\* accessor never waits forever for a lock that no running accessor holds.
C25_LockReleasedOnEveryExit ==
    /\ [](\A w \in 1..NumWorkers : pc[w] # "body" => flocks[w] = "none")
    /\ \A w \in 1..NumWorkers : []<>(~WaitsAtFreeLock(w))

\* A save that raised has returned, and the save that waited for its lock on
\* the store file now holds it
C25_Witness ==
    \E w, x \in 1..NumWorkers :
        /\ pc[w] = "idle"
        /\ op[w].kind = "safe_save"
        /\ op[w].result = "raised"
        /\ flocks[w] = "none"
        /\ op[x].kind = "safe_save"
        /\ pc[x] = "body"
        /\ flocks[x] = "ex"

-----------------------------------------------------------------------------
(* Claims about the record store under concurrent callers (SpecStore) *)

Finished(w, kind) == pc[w] = "idle" /\ op[w].kind = kind /\ op[w].result # "pending"

\* C3 (as claimed): when two registrations for different users have both
\* finished, whatever the interleaving of their load and save steps, the store
\* holds both users' records.
C3_BothRegistrationsPersist ==
    \A w1, w2 \in Workers :
        (/\ w1 # w2
         /\ Finished(w1, "register")
         /\ Finished(w2, "register")
         /\ op[w1].user # op[w2].user)
            => /\ file.kind = "json"
               /\ {op[w1].user, op[w2].user} \subseteq Keys(file.data)

\* C4 (as claimed): a load never sees the file in the middle of a save: what
\* it reads is a complete mapping (or no file at all), never the empty or
\* mixed content of a save that has opened the file and not yet written it.
C4_LoadNeverSeesUnfinishedSave ==
    \A w \in Workers : obs[w] \in {"none", "missing", "json"}

\* C5 (as claimed): once a register for u has completed, every later
\* credential lookup for u returns a record.
C5_RegisteredUserStaysRegistered ==
    \A w \in Workers :
        (Finished(w, "lookup") /\ op[w].known) => op[w].result = "found"

====
